---- MODULE Spec2Model ----
(***************************************************************************)
(* A model of the strided-tensor library of src/tensor.c: a reference-    *)
(* counted Storage (flat float buffer) and the Tensors that view it.      *)
(*                                                                         *)
(* Floats are modelled by integers: every value the model stores is a     *)
(* small integer, which a float represents exactly, and the only          *)
(* arithmetic on values is the repeated addition of tensor_arange.        *)
(* Physical positions are 0-based as in the code (data is a function on   *)
(* 0..data_size-1); shape, strides and index arrays are sequences, so     *)
(* axis i of the code is element i+1 of the sequence.                     *)
(***************************************************************************)
EXTENDS Integers, Sequences, FiniteSets, TLC

\* ------------------------------------------------------------------------
\* Bounds of the model
MaxTensors == 3   \* Tensor structs ever allocated (constructors + reshapes)
MaxStorages == 2  \* Storage structs ever allocated (constructor calls)
MaxNdim == 2      \* largest rank passed to a constructor or to reshape
MaxSize == 4      \* largest shape entry, and largest product of a shape
MaxVal == 1       \* element values written by callers are 0..MaxVal
MaxStart == 0     \* tensor_arange is called with start in 0..MaxStart
MaxStep == 1      \* and step in 1..MaxStep (the demonstration's call: start 0, step 1)
MaxHeap == 4      \* floats the heap can hold at a time: malloc fails beyond it

TensorIds == 1..MaxTensors
StorageIds == 1..MaxStorages
Values == 0..MaxVal

RECURSIVE SeqsUpTo(_, _)
SeqsUpTo(S, n) ==
    IF n = 0 THEN {<<>>}
    ELSE LET shorter == SeqsUpTo(S, n - 1)
         IN  shorter \cup {Append(q, x) : q \in {r \in shorter : Len(r) = n - 1}, x \in S}

\* ------------------------------------------------------------------------
\* Pure helpers, computed as the code computes them

\* int size = 1; for (i < ndim) size *= shape[i];      (tensor_empty, tensor_reshape)
RECURSIVE ShapeSizeFrom(_, _, _)
ShapeSizeFrom(shape, i, size) ==
    IF i > Len(shape) THEN size
    ELSE ShapeSizeFrom(shape, i + 1, size * shape[i])

ShapeSize(shape) == ShapeSizeFrom(shape, 1, 1)

\* shapes a caller passes: rank 1..MaxNdim, positive entries (a Tensor's shape
\* is a sequence of positive integers; rank 0 and non-positive entries are
\* outside the callers' contract), product at most MaxSize, so that the int
\* arithmetic of size *= shape[i] and of the strides never overflows
Shapes == {s \in SeqsUpTo(1..MaxSize, MaxNdim) : Len(s) >= 1 /\ ShapeSize(s) <= MaxSize}

\* all sequences over the sets dims[1], ..., dims[n]
RECURSIVE TuplesFrom(_, _)
TuplesFrom(dims, n) ==
    IF n = 0 THEN {<<>>}
    ELSE {Append(q, x) : q \in TuplesFrom(dims, n - 1), x \in dims[n]}

\* index arrays a caller passes to get/set on a tensor of this shape: of the
\* right count, each entry from one below -shape[a] to shape[a] (every valid
\* entry, negative or not, and the nearest invalid one on either side); and
\* of every wrong count 0..MaxNdim+1 (entries 0: in range wherever an axis exists)
IndexArrays(shape) ==
    TuplesFrom([a \in 1..Len(shape) |-> (0 - (shape[a] + 1))..shape[a]], Len(shape))
    \cup {q \in SeqsUpTo({0}, MaxNdim + 1) : Len(q) # Len(shape)}

\* row_major_strides with the wrong shape entry: strides[i] = strides[i+1]*shape[i]
RECURSIVE StridesFrom_wrong_axis(_, _, _)
StridesFrom_wrong_axis(shape, i, strides) ==
    IF i < 1 THEN strides
    ELSE StridesFrom_wrong_axis(shape, i - 1,
                                [strides EXCEPT ![i] = strides[i + 1] * shape[i]])

row_major_strides_wrong_axis(shape) ==
    LET ndim == Len(shape)
    IN  StridesFrom_wrong_axis(shape, ndim - 1, [i \in 1..ndim |-> IF i = ndim THEN 1 ELSE 0])

\* strides that step one element along every axis
row_major_strides_unit(shape) == [i \in 1..Len(shape) |-> 1]

\* strides[ndim-1] = 1; for (i = ndim-2; i >= 0; i--) strides[i] = strides[i+1]*shape[i+1];
RECURSIVE StridesFrom(_, _, _)
StridesFrom(shape, i, strides) ==
    IF i < 1 THEN strides
    ELSE StridesFrom(shape, i - 1,
                     [strides EXCEPT ![i] = strides[i + 1] * shape[i + 1]])

row_major_strides(shape) ==
    LET ndim == Len(shape)
    IN  StridesFrom(shape, ndim - 1, [i \in 1..ndim |-> IF i = ndim THEN 1 ELSE 0])

\* int idx = t->offset; for (i < ndim) idx += indices[i] * t->strides[i];
RECURSIVE L2PFrom(_, _, _, _)
L2PFrom(t, indices, i, idx) ==
    IF i > t.ndim THEN idx
    ELSE L2PFrom(t, indices, i + 1, idx + indices[i] * t.strides[i])

\* logical_to_physical without the strides: idx += indices[i]
RECURSIVE L2PFrom_no_strides(_, _, _, _)
L2PFrom_no_strides(t, indices, i, idx) ==
    IF i > t.ndim THEN idx
    ELSE L2PFrom_no_strides(t, indices, i + 1, idx + indices[i])

logical_to_physical_no_strides(t, indices) == L2PFrom_no_strides(t, indices, 1, t.offset)

logical_to_physical(t, indices) == L2PFrom(t, indices, 1, t.offset)

\* The validation loop of tensor_setitem / tensor_getitem: axis by axis, a
\* negative entry is rewritten in place to entry + shape[i], then checked.
\* Returns whether every axis passed, the caller's array as the loop left
\* it, and how many entries the loop looked at.
RECURSIVE CheckIndicesFrom(_, _, _)
CheckIndicesFrom(t, indices, i) ==
    IF i > t.ndim THEN [ok |-> TRUE, indices |-> indices, examined |-> t.ndim]
    ELSE LET adj == IF indices[i] < 0 THEN indices[i] + t.shape[i] ELSE indices[i]
             ind2 == [indices EXCEPT ![i] = adj]
         IN  IF adj < 0 \/ adj >= t.shape[i]
             THEN [ok |-> FALSE, indices |-> ind2, examined |-> i]
             ELSE CheckIndicesFrom(t, ind2, i + 1)

\* check_indices with the upper bound tested by > instead of >=
RECURSIVE CheckIndicesFrom_upper_off_by_one(_, _, _)
CheckIndicesFrom_upper_off_by_one(t, indices, i) ==
    IF i > t.ndim THEN [ok |-> TRUE, indices |-> indices, examined |-> t.ndim]
    ELSE LET adj == IF indices[i] < 0 THEN indices[i] + t.shape[i] ELSE indices[i]
             ind2 == [indices EXCEPT ![i] = adj]
         IN  IF adj < 0 \/ adj > t.shape[i]
             THEN [ok |-> FALSE, indices |-> ind2, examined |-> i]
             ELSE CheckIndicesFrom_upper_off_by_one(t, ind2, i + 1)

check_indices_upper_off_by_one(t, indices) == CheckIndicesFrom_upper_off_by_one(t, indices, 1)

\* check_indices with a negative entry wrapped to entry + shape[i] - 1
RECURSIVE CheckIndicesFrom_wrap_off_by_one(_, _, _)
CheckIndicesFrom_wrap_off_by_one(t, indices, i) ==
    IF i > t.ndim THEN [ok |-> TRUE, indices |-> indices, examined |-> t.ndim]
    ELSE LET adj == IF indices[i] < 0 THEN indices[i] + t.shape[i] - 1 ELSE indices[i]
             ind2 == [indices EXCEPT ![i] = adj]
         IN  IF adj < 0 \/ adj >= t.shape[i]
             THEN [ok |-> FALSE, indices |-> ind2, examined |-> i]
             ELSE CheckIndicesFrom_wrap_off_by_one(t, ind2, i + 1)

check_indices_wrap_off_by_one(t, indices) == CheckIndicesFrom_wrap_off_by_one(t, indices, 1)

check_indices(t, indices) == CheckIndicesFrom(t, indices, 1)

\* Elements are IEEE-754 single-precision floats; the model holds the
\* integer-valued ones as integers. A float has a 24-bit significand: every
\* integer up to 2^24 is a float, between 2^24 and 2^25 only the even ones are.
FloatExactMax == 16777216

\* the float nearest to the integer x, 0 <= x < 2^25, ties to the even significand
RoundToFloat(x) ==
    IF x <= FloatExactMax \/ x % 2 = 0 THEN x
    ELSE IF (x - 1) % 4 = 0 THEN x - 1 ELSE x + 1

\* a + b in float arithmetic
FloatAdd(a, b) == RoundToFloat(a + b)

\* float val = start; for (i < data_size) { data[i] = val; val += step; }
RECURSIVE ArangeFrom(_, _, _, _, _)
ArangeFrom(data, size, i, val, step) ==
    IF i >= size THEN data
    ELSE ArangeFrom([data EXCEPT ![i] = val], size, i + 1, FloatAdd(val, step), step)

arange_fill(data, size, start, step) == ArangeFrom(data, size, 0, start, step)

\* for (i < data_size) data[i] = c;                     (tensor_ones, tensor_zeros)
RECURSIVE ConstFrom(_, _, _, _)
ConstFrom(data, size, i, c) ==
    IF i >= size THEN data
    ELSE ConstFrom([data EXCEPT ![i] = c], size, i + 1, c)

const_fill(data, size, c) == ConstFrom(data, size, 0, c)

\* ------------------------------------------------------------------------
\* State
VARIABLES
    tensors,    \* TensorIds -> Tensor struct (tensor.h) plus the state of its heap blocks
    storages,   \* StorageIds -> Storage struct (tensor.h) plus the state of its heap blocks
    status,     \* "running", or how the process ended
    last        \* the call made by the last step: its arguments and what it did

vars == <<tensors, storages, status, last>>

NoValue == 0 - 1

\* a Tensor slot no constructor has filled yet. repr is the state of the block
\* t->repr points to; repr_text is the elements the text in it was made from.
NoTensor ==
    [state |-> "unused", storage |-> 0, offset |-> 0, ndim |-> 0,
     shape |-> <<>>, strides |-> <<>>, repr |-> "NULL", repr_text |-> <<>>,
     self_frees |-> 0, shape_frees |-> 0, strides_frees |-> 0,
     repr_frees |-> 0, repr_overflow |-> FALSE]

\* a Storage slot storage_new has not filled yet
NoStorage ==
    [state |-> "unused", data |-> <<>>, data_size |-> 0, ref_count |-> 0,
     data_frees |-> 0, self_frees |-> 0]

NoCall ==
    [op |-> "none", t |-> 0, new |-> 0, arg |-> <<>>, indices |-> <<>>,
     val |-> NoValue, result |-> NoValue, examined |-> 0, phys |-> NoValue,
     reads |-> 0, writes |-> 0, start |-> NoValue, step |-> NoValue]

Init ==
    /\ tensors = [i \in TensorIds |-> NoTensor]
    /\ storages = [s \in StorageIds |-> NoStorage]
    /\ status = "running"
    /\ last = NoCall

NumTensors == Cardinality({i \in TensorIds : tensors[i].state # "unused"})
NumStorages == Cardinality({s \in StorageIds : storages[s].state # "unused"})
Live == {i \in TensorIds : tensors[i].state = "live"}

\* ------------------------------------------------------------------------
\* Storage

\* storage_new that leaves the creator's reference uncounted
storage_new_uncounted(size, garbage) ==
    [state |-> "allocated", data |-> garbage, data_size |-> size, ref_count |-> 0,
     data_frees |-> 0, self_frees |-> 0]

\* storage_new: the buffer comes from malloc, so its contents are whatever
\* the allocator hands out (garbage, chosen by the caller of this operator)
storage_new(size, garbage) ==
    [state |-> "allocated", data |-> garbage, data_size |-> size, ref_count |-> 1,
     data_frees |-> 0, self_frees |-> 0]

\* storage_incref that forgets to count
storage_incref_forgotten(s) == s

\* storage_incref that counts the new reference twice
storage_incref_twice(s) == [s EXCEPT !.ref_count = s.ref_count + 2]

storage_incref(s) == [s EXCEPT !.ref_count = s.ref_count + 1]

\* storage_decref that releases at ref_count <= 1 instead of == 0
storage_decref_early(s) ==
    LET rc == s.ref_count - 1
    IN  IF rc <= 1
        THEN [s EXCEPT !.ref_count = rc, !.state = "freed",
                       !.data_frees = s.data_frees + 1,
                       !.self_frees = s.self_frees + 1]
        ELSE [s EXCEPT !.ref_count = rc]

\* s->ref_count--; if (s->ref_count == 0) { free(s->data); free(s); }
storage_decref(s) ==
    LET rc == s.ref_count - 1
    IN  IF rc = 0
        THEN [s EXCEPT !.ref_count = rc, !.state = "freed", !.data = <<>>,
                       !.data_frees = s.data_frees + 1,
                       !.self_frees = s.self_frees + 1]
        ELSE [s EXCEPT !.ref_count = rc]

\* assert(idx >= 0 && idx < s->data_size)
storage_index_ok(s, idx) == idx >= 0 /\ idx < s.data_size

storage_getitem(s, idx) == s.data[idx]

\* storage_setitem that writes the neighbouring element too
storage_setitem_spill(s, idx, val) ==
    [s EXCEPT !.data = [i \in DOMAIN s.data |->
                           IF i = idx \/ i = idx + 1 THEN val ELSE s.data[i]]]

storage_setitem(s, idx, val) == [s EXCEPT !.data = [s.data EXCEPT ![idx] = val]]

\* the contents malloc may hand out for a buffer of `size` floats
Garbage(size) == [0..(size - 1) -> Values]


\* ------------------------------------------------------------------------
\* Tensor

\* tensor_empty that sizes the Storage by the first axis only
tensor_empty_first_axis(shape, sid, garbage) ==
    [tensor  |-> [NoTensor EXCEPT !.state = "live", !.storage = sid, !.offset = 0,
                                  !.ndim = Len(shape), !.shape = shape,
                                  !.strides = row_major_strides(shape)],
     storage |-> storage_new(shape[1], garbage)]

\* tensor_empty: a fresh Storage of product(shape) floats, offset 0,
\* row-major strides, no cached repr
tensor_empty(shape, sid, garbage) ==
    [tensor  |-> [NoTensor EXCEPT !.state = "live", !.storage = sid, !.offset = 0,
                                  !.ndim = Len(shape), !.shape = shape,
                                  !.strides = row_major_strides(shape)],
     storage |-> storage_new(ShapeSize(shape), garbage)]

\* the reshape check accepting any shape that fits the buffer
reshape_compatible_fits(t, s, shape) == ShapeSize(shape) <= s.data_size

\* the check at the top of tensor_reshape
reshape_compatible(t, s, shape) == ShapeSize(shape) = s.data_size

\* tensor_reshape that keeps the strides of t when the rank stays the same
tensor_reshape_keeps_strides(t, shape) ==
    [NoTensor EXCEPT !.state = "live", !.storage = t.storage, !.offset = t.offset,
                     !.ndim = Len(shape), !.shape = shape,
                     !.strides = IF Len(shape) = t.ndim THEN t.strides
                                 ELSE row_major_strides(shape)]

\* tensor_reshape past its check: a new Tensor on the same Storage
tensor_reshape(t, shape) ==
    [NoTensor EXCEPT !.state = "live", !.storage = t.storage, !.offset = t.offset,
                     !.ndim = Len(shape), !.shape = shape,
                     !.strides = row_major_strides(shape)]

\* tensor_setitem that rejects only too few indices (ndim < t->ndim)
tensor_setitem_count_lt(t, s, indices, val) ==
    LET none == [status |-> "exit_failure", storage |-> s, indices |-> indices,
                 examined |-> 0, phys |-> NoValue, writes |-> 0]
    IN  IF Len(indices) < t.ndim THEN none
        ELSE LET c == check_indices(t, indices)
                 idx == logical_to_physical(t, c.indices)
             IN  IF ~c.ok
                 THEN [none EXCEPT !.indices = c.indices, !.examined = c.examined]
                 ELSE IF ~storage_index_ok(s, idx)
                 THEN [none EXCEPT !.status = "abort", !.indices = c.indices,
                                   !.examined = c.examined, !.phys = idx]
                 ELSE [status |-> "running", storage |-> storage_setitem(s, idx, val),
                       indices |-> c.indices, examined |-> c.examined,
                       phys |-> idx, writes |-> 1]

\* What one call of tensor_setitem(t, indices, val, ndim) does, ndim being the
\* length of the caller's array: how the call ends, the Storage after it, the
\* caller's array after it, and what it touched on the way.
tensor_setitem(t, s, indices, val) ==
    LET none == [status |-> "exit_failure", storage |-> s, indices |-> indices,
                 examined |-> 0, phys |-> NoValue, writes |-> 0]
    IN  IF Len(indices) # t.ndim THEN none
        ELSE LET c == check_indices(t, indices)
                 idx == logical_to_physical(t, c.indices)
             IN  IF ~c.ok
                 THEN [none EXCEPT !.indices = c.indices, !.examined = c.examined]
                 ELSE IF ~storage_index_ok(s, idx)
                 THEN [none EXCEPT !.status = "abort", !.indices = c.indices,
                                   !.examined = c.examined, !.phys = idx]
                 ELSE [status |-> "running", storage |-> storage_setitem(s, idx, val),
                       indices |-> c.indices, examined |-> c.examined,
                       phys |-> idx, writes |-> 1]

\* tensor_getitem that adjusts a copy of the index array, not the caller's
tensor_getitem_on_copy(t, s, indices) ==
    LET none == [status |-> "exit_failure", result |-> NoValue, indices |-> indices,
                 examined |-> 0, phys |-> NoValue, reads |-> 0]
    IN  IF Len(indices) # t.ndim THEN none
        ELSE LET c == check_indices(t, indices)
                 idx == logical_to_physical(t, c.indices)
             IN  IF ~c.ok
                 THEN [none EXCEPT !.examined = c.examined]
                 ELSE IF ~storage_index_ok(s, idx)
                 THEN [none EXCEPT !.status = "abort", !.examined = c.examined,
                                   !.phys = idx]
                 ELSE [status |-> "running", result |-> storage_getitem(s, idx),
                       indices |-> indices, examined |-> c.examined,
                       phys |-> idx, reads |-> 1]

\* What one call of tensor_getitem(t, indices, ndim) does.
tensor_getitem(t, s, indices) ==
    LET none == [status |-> "exit_failure", result |-> NoValue, indices |-> indices,
                 examined |-> 0, phys |-> NoValue, reads |-> 0]
    IN  IF Len(indices) # t.ndim THEN none
        ELSE LET c == check_indices(t, indices)
                 idx == logical_to_physical(t, c.indices)
             IN  IF ~c.ok
                 THEN [none EXCEPT !.indices = c.indices, !.examined = c.examined]
                 ELSE IF ~storage_index_ok(s, idx)
                 THEN [none EXCEPT !.status = "abort", !.indices = c.indices,
                                   !.examined = c.examined, !.phys = idx]
                 ELSE [status |-> "running", result |-> storage_getitem(s, idx),
                       indices |-> c.indices, examined |-> c.examined,
                       phys |-> idx, reads |-> 1]

\* tensor_free, the Tensor's own blocks: free(t->shape); free(t->strides);
\* free(t). t->repr is not passed to free. Of the freed struct the model
\* keeps which Storage it pointed to and the record of what was freed.
tensor_free(t) ==
    [NoTensor EXCEPT !.state = "freed", !.storage = t.storage, !.repr = t.repr,
                     !.repr_text = t.repr_text,
                     !.repr_frees = t.repr_frees, !.repr_overflow = t.repr_overflow,
                     !.shape_frees = t.shape_frees + 1,
                     !.strides_frees = t.strides_frees + 1,
                     !.self_frees = t.self_frees + 1]

\* ------------------------------------------------------------------------
\* Actions: one call of the API each

\* mallocCheck: malloc returned NULL, the process exits with EXIT_FAILURE
AllocFails(op, t, arg) ==
    /\ status' = "exit_failure"
    /\ last' = [NoCall EXCEPT !.op = op, !.t = t, !.arg = arg]
    /\ UNCHANGED <<tensors, storages>>

\* floats held by the Storage buffers not yet freed
RECURSIVE HeapUsedFrom(_)
HeapUsedFrom(s) ==
    IF s = 0 THEN 0
    ELSE HeapUsedFrom(s - 1)
         + (IF storages[s].state = "allocated" THEN storages[s].data_size ELSE 0)

HeapUsed == HeapUsedFrom(MaxStorages)

\* malloc finds room for a buffer of `size` floats
HeapHasRoom(size) == HeapUsed + size <= MaxHeap

\* a constructor call that got its memory: tensor t on storage sid
ConstructedBy(call, tensor, storage) ==
    LET id == NumTensors + 1
        sid == NumStorages + 1
    IN  /\ HeapHasRoom(storage.data_size)
        /\ tensors' = [tensors EXCEPT ![id] = tensor]
        /\ storages' = [storages EXCEPT ![sid] = storage]
        /\ last' = [call EXCEPT !.t = id, !.new = id]
        /\ UNCHANGED status

Constructed(op, shape, tensor, storage) ==
    ConstructedBy([NoCall EXCEPT !.op = op, !.arg = shape], tensor, storage)

\* the process is running and the caller is about to make its next call
Idle == status = "running" /\ last.op = "none"

CanConstruct ==
    /\ Idle
    /\ NumTensors < MaxTensors
    /\ NumStorages < MaxStorages

TensorEmpty ==
    /\ CanConstruct
    /\ \E shape \in Shapes :
          \/ \E garbage \in Garbage(ShapeSize(shape)) :
                LET e == tensor_empty(shape, NumStorages + 1, garbage)
                IN  Constructed("empty", shape, e.tensor, e.storage)
          \/ AllocFails("empty", 0, shape)

\* one call of tensor_arange with start drawn from starts
ArangeCall(starts) ==
    \E shape \in Shapes :
       \/ \E garbage \in Garbage(ShapeSize(shape)), start \in starts, step \in 1..MaxStep :
             LET e == tensor_empty(shape, NumStorages + 1, garbage)
                 filled == [e.storage EXCEPT !.data =
                               arange_fill(@, e.storage.data_size, start, step)]
             IN  ConstructedBy([NoCall EXCEPT !.op = "arange", !.arg = shape,
                                              !.start = start, !.step = step],
                               e.tensor, filled)
       \/ AllocFails("arange", 0, shape)

TensorArange ==
    /\ CanConstruct
    /\ ArangeCall(0..MaxStart)

\* tensor_arange called with the largest start from which every integer
\* step can still be told apart on the first addition
TensorArangeLarge ==
    /\ CanConstruct
    /\ ArangeCall({FloatExactMax})

TensorOnes ==
    /\ CanConstruct
    /\ \E shape \in Shapes :
          \/ \E garbage \in Garbage(ShapeSize(shape)) :
                LET e == tensor_empty(shape, NumStorages + 1, garbage)
                    filled == [e.storage EXCEPT !.data =
                                  const_fill(@, e.storage.data_size, 1)]
                IN  Constructed("ones", shape, e.tensor, filled)
          \/ AllocFails("ones", 0, shape)

TensorZeros ==
    /\ CanConstruct
    /\ \E shape \in Shapes :
          \/ \E garbage \in Garbage(ShapeSize(shape)) :
                LET e == tensor_empty(shape, NumStorages + 1, garbage)
                    filled == [e.storage EXCEPT !.data =
                                  const_fill(@, e.storage.data_size, 0)]
                IN  Constructed("zeros", shape, e.tensor, filled)
          \/ AllocFails("zeros", 0, shape)

\* one call tensor_reshape(t, shape, ndim)
ReshapeCall(t, shape) ==
    LET sid == tensors[t].storage
        id == NumTensors + 1
    IN  IF ~reshape_compatible(tensors[t], storages[sid], shape)
        THEN /\ status' = "exit_failure"
             /\ last' = [NoCall EXCEPT !.op = "reshape", !.t = t, !.arg = shape]
             /\ UNCHANGED <<tensors, storages>>
        ELSE /\ NumTensors < MaxTensors
             /\ \/ /\ tensors' = [tensors EXCEPT ![id] = tensor_reshape(tensors[t], shape)]
                   /\ storages' = [storages EXCEPT ![sid] = storage_incref(@)]
                   /\ last' = [NoCall EXCEPT !.op = "reshape", !.t = t, !.new = id,
                                             !.arg = shape]
                   /\ UNCHANGED status
                \/ AllocFails("reshape", t, shape)

TensorReshape ==
    /\ Idle
    /\ \E t \in Live, shape \in Shapes : ReshapeCall(t, shape)

TensorSetitem ==
    /\ Idle
    /\ \E t \in Live, val \in Values : \E indices \in IndexArrays(tensors[t].shape) :
          LET sid == tensors[t].storage
              r == tensor_setitem(tensors[t], storages[sid], indices, val)
          IN  /\ storages' = [storages EXCEPT ![sid] = r.storage]
              /\ status' = r.status
              /\ last' = [NoCall EXCEPT !.op = "setitem", !.t = t, !.arg = indices,
                                        !.indices = r.indices, !.val = val,
                                        !.examined = r.examined, !.phys = r.phys,
                                        !.writes = r.writes]
              /\ UNCHANGED tensors

TensorGetitem ==
    /\ Idle
    /\ \E t \in Live : \E indices \in IndexArrays(tensors[t].shape) :
          LET sid == tensors[t].storage
              r == tensor_getitem(tensors[t], storages[sid], indices)
          IN  /\ status' = r.status
              /\ last' = [NoCall EXCEPT !.op = "getitem", !.t = t, !.arg = indices,
                                        !.indices = r.indices, !.result = r.result,
                                        !.examined = r.examined, !.phys = r.phys,
                                        !.reads = r.reads]
              /\ UNCHANGED <<tensors, storages>>

\* one call tensor_free(t)
FreeCall(t) ==
    LET sid == tensors[t].storage
    IN  /\ storages' = [storages EXCEPT ![sid] = storage_decref(@)]
        /\ tensors' = [tensors EXCEPT ![t] = tensor_free(@)]
        /\ last' = [NoCall EXCEPT !.op = "free", !.t = t]
        /\ UNCHANGED status

\* the caller frees a Tensor it has not freed before
TensorFree ==
    /\ Idle
    /\ \E t \in Live : FreeCall(t)

\* the caller has used what the call returned and goes on to its next call
CallReturns ==
    /\ status = "running"
    /\ last.op # "none"
    /\ last' = NoCall
    /\ UNCHANGED <<tensors, storages, status>>

Next ==
    \/ TensorEmpty
    \/ TensorArange
    \/ TensorOnes
    \/ TensorZeros
    \/ TensorReshape
    \/ TensorSetitem
    \/ TensorGetitem
    \/ TensorFree
    \/ CallReturns

Spec == Init /\ [][Next]_vars


\* ------------------------------------------------------------------------
\* String representation

\* characters sprintf("%.2f") writes for a value the model stores (an
\* integer >= 0): its decimal digits, the point and two decimals
RECURSIVE Digits(_)
Digits(v) == IF v < 10 THEN 1 ELSE 1 + Digits(v \div 10)

FmtLen(v) == Digits(v) + 3

\* max_len as tensor_to_string computes it
RECURSIVE MaxLenFrom(_, _, _)
MaxLenFrom(t, i, max_len) ==
    IF i > t.ndim THEN max_len
    ELSE MaxLenFrom(t, i + 1,
            max_len + t.shape[i] * 5 + (t.shape[i] - 1) * 2
                    + (IF i < t.ndim THEN t.shape[i] * 2 + 2 ELSE 0))

repr_max_len(t) == MaxLenFrom(t, 1, 2) + 1

\* characters fill_string writes from dimension dim (0-based, as in the code)
RECURSIVE fill_string(_, _, _, _), fill_loop(_, _, _, _, _)
fill_string(t, s, indices, dim) ==
    IF dim = t.ndim
    THEN FmtLen(tensor_getitem(t, s, indices).result)
    ELSE 1 + fill_loop(t, s, indices, dim, 0) + 1

fill_loop(t, s, indices, dim, i) ==
    IF i >= t.shape[dim + 1] THEN 0
    ELSE fill_string(t, s, [indices EXCEPT ![dim + 1] = i], dim + 1)
         + (IF i < t.shape[dim + 1] - 1 THEN 2 ELSE 0)
         + fill_loop(t, s, indices, dim, i + 1)

\* bytes tensor_to_string writes into the block of repr_max_len(t) bytes:
\* the text and its terminating NUL
repr_written(t, s) == fill_string(t, s, [i \in 1..t.ndim |-> 0], 0) + 1

\* How a call that writes past the end of the repr block can end: the bytes
\* land in whatever the allocator placed behind the block. The process goes
\* on, or its heap is corrupted, or (the indices array of line 154 being the
\* next block) tensor_getitem meets an overwritten index and exits.
OverrunOutcomes == {"running", "corrupt", "exit_failure"}

MaxReprFrees == 2  \* calls of free() on one repr block the model follows

\* tensor_to_string: returns t->repr when it is not NULL (also when the block
\* it points to was freed by tensor_print); otherwise allocates and fills it.
\* Writing more than max_len bytes overruns the block: undefined behaviour,
\* with the outcomes of OverrunOutcomes.
TensorToString ==
    /\ Idle
    /\ \E t \in Live :
          LET tr == tensors[t]
              sr == storages[tr.storage]
              call == [NoCall EXCEPT !.op = "to_string", !.t = t]
          IN  IF tr.repr # "NULL"
              THEN /\ last' = call
                   /\ UNCHANGED <<tensors, storages, status>>
              ELSE \/ /\ tensors' = [tensors EXCEPT ![t].repr = "valid",
                                        ![t].repr_text = sr.data,
                                        ![t].repr_overflow = repr_written(tr, sr) > repr_max_len(tr)]
                      /\ last' = call
                      /\ status' \in (IF repr_written(tr, sr) > repr_max_len(tr)
                                      THEN OverrunOutcomes ELSE {"running"})
                      /\ UNCHANGED storages
                   \/ AllocFails("to_string", t, <<>>)

\* tensor_print: str = tensor_to_string(t); printf; free(str). str is
\* t->repr, which keeps pointing to the freed block. A second print hands the
\* same block to free again: undefined behaviour, after which the allocator
\* aborts, or the heap is corrupted, or the process goes on.
PrintCall(t) ==
    LET tr == tensors[t]
        sr == storages[tr.storage]
        call == [NoCall EXCEPT !.op = "print", !.t = t]
        overflow == tr.repr = "NULL" /\ repr_written(tr, sr) > repr_max_len(tr)
    IN  \/ /\ tr.repr_frees < MaxReprFrees
           /\ tensors' = [tensors EXCEPT ![t].repr = "dangling",
                             ![t].repr_text = IF tr.repr = "NULL" THEN sr.data
                                              ELSE tr.repr_text,
                             ![t].repr_frees = tr.repr_frees + 1,
                             ![t].repr_overflow = tr.repr_overflow \/ overflow]
           /\ last' = call
           /\ status' \in (IF tr.repr = "dangling" THEN {"running", "abort", "corrupt"}
                           ELSE IF overflow THEN OverrunOutcomes
                           ELSE {"running"})
           /\ UNCHANGED storages
        \/ /\ tr.repr = "NULL"
           /\ AllocFails("print", t, <<>>)

TensorPrint ==
    /\ Idle
    /\ \E t \in Live : PrintCall(t)

\* Construction, printing and destruction: the calls that allocate and free.
\* Element values matter here only through the length of their text, so the
\* tensors are built by tensor_ones and tensor_arange.
NextRepr ==
    \/ TensorArange
    \/ TensorOnes
    \/ TensorReshape
    \/ TensorToString
    \/ TensorPrint
    \/ TensorFree
    \/ CallReturns

SpecRepr == Init /\ [][NextRepr]_vars

\* Printing a tensor whose elements are being changed: tensor_arange builds
\* it, tensor_setitem changes it, tensor_to_string and tensor_print show it.
NextMemo ==
    \/ TensorArange
    \/ TensorSetitem
    \/ TensorToString
    \/ TensorPrint
    \/ CallReturns

SpecMemo == Init /\ [][NextMemo]_vars

\* Ranges and the reads of their elements: tensor_arange with small and with
\* large start values, tensor_getitem.
NextArange ==
    \/ TensorArange
    \/ TensorArangeLarge
    \/ TensorGetitem
    \/ CallReturns

SpecArange == Init /\ [][NextArange]_vars


\* ------------------------------------------------------------------------
\* The demonstration program, main

\* int shape[] = {3, 4};  int new_shape[] = {2, 6};
MainShape == <<3, 4>>
MainNewShape == <<2, 6>>

\* Tensor ids of main's variables t and t_reshaped
MainT == 1
MainReshaped == 2

\* main is at the statement after the call `op` it made last
MainAfter(op, t) == status = "running" /\ last.op = op /\ last.t = t

\* t = tensor_arange(0.0, 1.0, shape, 2), its first statement: tensor_empty
\* returns a Tensor whose buffer holds what malloc handed out
MainArangeEmpty ==
    /\ MainAfter("none", 0)
    /\ NumTensors = 0
    /\ \/ \E garbage \in Garbage(ShapeSize(MainShape)) :
             LET e == tensor_empty(MainShape, 1, garbage)
             IN  /\ tensors' = [tensors EXCEPT ![MainT] = e.tensor]
                 /\ storages' = [storages EXCEPT ![1] = e.storage]
                 /\ last' = [NoCall EXCEPT !.op = "empty", !.t = MainT, !.new = MainT,
                                           !.arg = MainShape]
                 /\ UNCHANGED status
       \/ AllocFails("arange", 0, MainShape)

\* tensor_arange's fill loop, and its return to main
MainArangeFill ==
    /\ MainAfter("empty", MainT)
    /\ storages' = [storages EXCEPT ![1].data = arange_fill(@, storages[1].data_size, 0, 1)]
    /\ last' = [NoCall EXCEPT !.op = "arange", !.t = MainT, !.new = MainT,
                              !.arg = MainShape, !.start = 0, !.step = 1]
    /\ UNCHANGED <<tensors, status>>

\* tensor_print(t)
MainPrint ==
    /\ MainAfter("arange", MainT)
    /\ PrintCall(MainT)

\* t_reshaped = tensor_reshape(t, new_shape, 2)
MainReshape ==
    /\ MainAfter("print", MainT)
    /\ ReshapeCall(MainT, MainNewShape)

\* tensor_print(t_reshaped)
MainPrintReshaped ==
    /\ MainAfter("reshape", MainT)
    /\ PrintCall(MainReshaped)

\* tensor_free(t)
MainFree ==
    /\ MainAfter("print", MainReshaped)
    /\ FreeCall(MainT)

\* return 0
MainReturn ==
    /\ MainAfter("free", MainT)
    /\ status' = "exit_success"
    /\ last' = [NoCall EXCEPT !.op = "return"]
    /\ UNCHANGED <<tensors, storages>>

NextMain ==
    \/ MainArangeEmpty
    \/ MainArangeFill
    \/ MainPrint
    \/ MainReshape
    \/ MainPrintReshaped
    \/ MainFree
    \/ MainReturn

SpecMain == Init /\ [][NextMain]_vars


\* ------------------------------------------------------------------------
\* Vocabulary of the properties

\* the live Tensors whose storage field points to Storage s
Sharing(s) == {t \in Live : tensors[t].storage = s}

\* index arrays whose every entry is valid for its axis: in [-shape[a], shape[a])
ValidIndexArrays(shape) ==
    TuplesFrom([a \in 1..Len(shape) |-> (0 - shape[a])..(shape[a] - 1)], Len(shape))

\* the valid index arrays without negative entries
NonNegIndexArrays(shape) ==
    TuplesFrom([a \in 1..Len(shape) |-> 0..(shape[a] - 1)], Len(shape))

\* a valid index array with its negative entries replaced by entry + shape[a]
NonNegative(shape, idx) ==
    [a \in 1..Len(shape) |-> IF idx[a] < 0 THEN idx[a] + shape[a] ELSE idx[a]]

\* what tensor_getitem(t, idx) returns in the current state / in the next state
GetNow(t, idx) == tensor_getitem(tensors[t], storages[tensors[t].storage], idx).result
GetNext(t, idx) == tensor_getitem(tensors'[t], storages'[tensors'[t].storage], idx).result

\* the physical position a valid index array of tensor t addresses
PhysOf(t, idx) == logical_to_physical(tensors[t], NonNegative(tensors[t].shape, idx))

\* this step is a call of tensor_setitem that returned
SetitemReturns == last'.op = "setitem" /\ status' = "running"

\* this step is a call of tensor_getitem or tensor_setitem
AccessCall == last'.op \in {"getitem", "setitem"}

\* the four constructors
Constructors == {"empty", "arange", "ones", "zeros"}

\* the product of the entries of a shape
\* the row-major flat position of a non-negative index array in a shape:
\* sum of idx[i] * product(shape[i+1..])
RECURSIVE FlatFrom(_, _, _, _)
FlatFrom(shape, idx, i, k) ==
    IF i > Len(shape) THEN k
    ELSE FlatFrom(shape, idx, i + 1, k * shape[i] + idx[i])

RowMajorFlat(shape, idx) == FlatFrom(shape, idx, 1, 0)

RECURSIVE Product(_)
Product(shape) == IF shape = <<>> THEN 1 ELSE Head(shape) * Product(Tail(shape))

\* ------------------------------------------------------------------------
\* C1: the ref_count of every Storage equals the number of live Tensors whose
\* storage field points to it, in every state constructors, reshape and free
\* (each Tensor freed at most once) can reach.
C1_RefCountIsLiveSharers ==
    \A s \in StorageIds : storages[s].ref_count = Cardinality(Sharing(s))

\* a Storage shared by two live Tensors right after a third Tensor was freed
C1_Witness ==
    /\ last.op = "free"
    /\ \E s \in StorageIds : storages[s].ref_count = 2 /\ Cardinality(Sharing(s)) = 2

\* what holds of a Storage while live Tensors share it, and after
C2_AllocatedWhileShared ==
    \A s \in StorageIds :
       /\ Sharing(s) # {} =>
             /\ storages[s].state = "allocated"
             /\ storages[s].ref_count >= 1
             /\ storages[s].data_frees = 0 /\ storages[s].self_frees = 0
             /\ DOMAIN storages[s].data = 0..(storages[s].data_size - 1)
       /\ (storages[s].state # "unused" /\ Sharing(s) = {}) =>
             /\ storages[s].state = "freed"
             /\ storages[s].data_frees = 1 /\ storages[s].self_frees = 1

\* what holds of every step: releases happen at 1 -> 0 only, and tensor_free
\* leaves the data of a surviving Storage alone
C2_ReleasedAtZeroStep ==
    \A s \in StorageIds :
       /\ (storages[s].state = "allocated" /\ storages'[s].state = "freed")
             <=> (storages[s].ref_count = 1 /\ storages'[s].ref_count = 0)
       /\ storages'[s].data_frees # storages[s].data_frees
             => (storages[s].ref_count = 1 /\ storages'[s].ref_count = 0)
       /\ (last'.op = "free" /\ storages'[s].state = "allocated")
             => storages'[s].data = storages[s].data

\* C2: a Storage buffer is released exactly in the step that takes its
\* ref_count from 1 to 0: while a live Tensor shares it, it is allocated with
\* ref_count >= 1 and holds its data; once no live Tensor shares it, buffer and
\* struct have been freed, once each; and freeing a Tensor changes no element
\* of a Storage that stays allocated.
C2_ReleaseExactlyAtZero ==
    [] C2_AllocatedWhileShared /\ [][C2_ReleasedAtZeroStep]_vars

\* t2 shares the Storage of a freed Tensor and a get through t2 has just
\* returned an element of the still allocated buffer
C2_Witness ==
    /\ last.op = "getitem" /\ status = "running" /\ last.result # NoValue
    /\ \E t1 \in TensorIds :
          /\ tensors[t1].state = "freed"
          /\ tensors[t1].storage = tensors[last.t].storage
          /\ storages[tensors[last.t].storage].state = "allocated"
          /\ last.result = storages[tensors[last.t].storage].data[last.phys]

\* a returning tensor_setitem as seen through every Tensor on its Storage
C3_AliasingStep ==
    SetitemReturns =>
       LET a == last'.t
           pos == PhysOf(a, last'.arg)
       IN  \A b \in Sharing(tensors[a].storage) :
              LET all == NonNegIndexArrays(tensors[b].shape)
                  same == {idx2 \in all : PhysOf(b, idx2) = pos}
              IN  /\ Cardinality(same) = 1
                  /\ \A idx2 \in same : GetNext(b, idx2) = last'.val
                  /\ \A idx2 \in all \ same : GetNext(b, idx2) = GetNow(b, idx2)

\* C3: aliasing. When tensor_setitem(a, idx, v) returns, every live Tensor b
\* on the same Storage (a itself included) reads v at its one index that
\* addresses the physical position written, and its previous value at every
\* other index.
C3_Aliasing == [][C3_AliasingStep]_vars

\* a set through a rank-2 Tensor is read back through a rank-1 Tensor on the
\* same Storage, at a position other than the first
C3_Witness ==
    /\ last.op = "setitem" /\ status = "running" /\ last.phys > 0
    /\ tensors[last.t].ndim = 2
    /\ \E b \in Sharing(tensors[last.t].storage) :
          /\ b # last.t
          /\ tensors[b].ndim = 1
          /\ GetNow(b, <<last.phys>>) = last.val

\* C4: every live Tensor of rank >= 1 has strides[ndim-1] = 1 and
\* strides[i] = strides[i+1] * shape[i+1] for the axes before the last.
C4_RowMajorStrides ==
    \A t \in Live :
       LET tr == tensors[t]
       IN  tr.ndim >= 1 =>
              /\ Len(tr.shape) = tr.ndim /\ Len(tr.strides) = tr.ndim
              /\ tr.strides[tr.ndim] = 1
              /\ \A i \in 1..(tr.ndim - 1) : tr.strides[i] = tr.strides[i + 1] * tr.shape[i + 1]

\* a reshaped Tensor of rank 2 whose leading stride is not 1, after its
\* source was freed and one of its elements written
C4_Witness ==
    /\ last.op = "setitem" /\ status = "running"
    /\ tensors[last.t].ndim = 2 /\ tensors[last.t].strides[1] > 1
    /\ \E t1 \in TensorIds :
          tensors[t1].state = "freed" /\ tensors[t1].storage = tensors[last.t].storage

\* a returning tensor_setitem as seen through the Tensor it was called on
C5_RoundTripStep ==
    SetitemReturns =>
       LET t == last'.t
           shape == tensors[t].shape
       IN  /\ last'.arg \in ValidIndexArrays(shape)
           /\ GetNext(t, last'.arg) = last'.val
           /\ GetNext(t, last'.indices) = last'.val
           /\ \A idx \in NonNegIndexArrays(shape) :
                 idx # NonNegative(shape, last'.arg) => GetNext(t, idx) = GetNow(t, idx)

\* C5: round trip. When tensor_setitem(t, idx, v) returns (idx of the right
\* count, every entry valid), tensor_getitem(t, idx) returns v, with the
\* index array as the caller passed it and as the call left it, and every
\* other element of t reads as before.
C5_RoundTrip == [][C5_RoundTripStep]_vars

\* a set through a negative index on a rank-2 Tensor of four elements has
\* just changed the element it addresses
C5_Witness ==
    /\ last.op = "setitem" /\ status = "running"
    /\ tensors[last.t].shape = <<2, 2>>
    /\ \E a \in 1..2 : last.arg[a] < 0
    /\ GetNow(last.t, last.arg) = last.val
    /\ \E idx \in NonNegIndexArrays(tensors[last.t].shape) : GetNow(last.t, idx) # last.val

\* a call of tensor_reshape, refused or not
C6_ReshapeStep ==
    last'.op = "reshape" =>
       LET t == last'.t
           mismatch == ShapeSize(last'.arg) # ShapeSize(tensors[t].shape)
       IN  /\ mismatch =>
                 /\ status' = "exit_failure"
                 /\ last'.new = 0
                 /\ tensors' = tensors
                 /\ storages' = storages
           /\ (status' = "running") =>
                 /\ ~mismatch
                 /\ last'.new # 0
                 /\ tensors'[last'.new].state = "live"

\* C6: tensor_reshape(t, new_shape) exits with a failure status whenever
\* product(new_shape) differs from the element count of t, creating no Tensor
\* and leaving every Storage (ref_count, data) as it was; when it returns a
\* Tensor the two counts are equal.
C6_ReshapeRejectsMismatch == [][C6_ReshapeStep]_vars

\* a reshape of a Tensor sharing its Storage with another was refused for a
\* product smaller than the element count
C6_Witness ==
    /\ last.op = "reshape" /\ status = "exit_failure"
    /\ ShapeSize(last.arg) < storages[tensors[last.t].storage].data_size
    /\ storages[tensors[last.t].storage].ref_count = 2

\* a get or set with the wrong number of indices
C7_CountStep ==
    (AccessCall /\ Len(last'.arg) # tensors[last'.t].ndim) =>
       /\ status' = "exit_failure"
       /\ last'.examined = 0
       /\ last'.indices = last'.arg
       /\ last'.reads = 0 /\ last'.writes = 0
       /\ last'.result = NoValue
       /\ storages' = storages

\* C7: tensor_getitem and tensor_setitem called with an index count other
\* than t.ndim exit with a failure status, having examined no index entry
\* (the caller's array is as passed) and read or written no Storage element.
C7_CountMismatchExits == [][C7_CountStep]_vars

\* a set with one index too many on a Tensor, refused
C7_Witness ==
    /\ last.op = "setitem" /\ status = "exit_failure"
    /\ Len(last.arg) = tensors[last.t].ndim + 1
    /\ last.examined = 0

\* a get or set with an entry out of range on some axis
C8_BoundsStep ==
    (/\ AccessCall
     /\ Len(last'.arg) = tensors[last'.t].ndim
     /\ \E a \in 1..Len(last'.arg) :
           last'.arg[a] < 0 - tensors[last'.t].shape[a]
              \/ last'.arg[a] >= tensors[last'.t].shape[a]) =>
       /\ status' = "exit_failure"
       /\ last'.reads = 0 /\ last'.writes = 0
       /\ last'.result = NoValue
       /\ storages' = storages

\* C8: tensor_getitem and tensor_setitem called with the right count and an
\* entry outside [-shape[a], shape[a]) on some axis exit with a failure
\* status; no Storage element is read or written.
C8_OutOfBoundsExits == [][C8_BoundsStep]_vars

\* a set whose second entry equals shape[1], which a physical position of
\* the buffer would still match, refused after the first entry passed
C8_Witness ==
    /\ last.op = "setitem" /\ status = "exit_failure"
    /\ tensors[last.t].shape = <<2, 2>>
    /\ last.arg = <<0, 2>>
    /\ last.examined = 2

\* a get or set with valid indices, some of them negative
C9_NegativeStep ==
    AccessCall =>
       LET t == last'.t
           tr == tensors[t]
           sr == storages[tr.storage]
           idx == last'.arg
       IN  (Len(idx) = tr.ndim /\ idx \in ValidIndexArrays(tr.shape)) =>
              \A a \in 1..tr.ndim :
                 idx[a] < 0 =>
                    LET pos == [idx EXCEPT ![a] = tr.shape[a] + idx[a]]
                        g == tensor_getitem(tr, sr, pos)
                    IN  /\ status' = "running"
                        /\ g.status = "running"
                        /\ last'.phys = g.phys
                        /\ last'.op = "getitem" => last'.result = g.result
                        /\ last'.op = "setitem" =>
                              storages'[tr.storage]
                                 = tensor_setitem(tr, sr, pos, last'.val).storage

\* C9: negative indexing. A get or set whose index array (right count, every
\* entry valid) has entry -k on an axis a returns, and addresses the element
\* that the array with shape[a]-k on that axis and the other entries equal
\* addresses: the same physical position, the same value read, the same
\* Storage after the write.
C9_NegativeIndexEquivalence == [][C9_NegativeStep]_vars

\* get(t, [-1]) on a 1-D Tensor of length 4 has just read the element at
\* position 3
C9_Witness ==
    /\ last.op = "getitem" /\ status = "running"
    /\ tensors[last.t].shape = <<4>>
    /\ last.arg = <<0 - 1>>
    /\ last.phys = 3
    /\ last.result = GetNow(last.t, <<3>>)


\* C10: tensor_free(t) releases everything t owns: once t is freed, its shape
\* array, its strides array and the Tensor struct have each been freed
\* exactly once, and so has its cached string representation if
\* tensor_to_string or tensor_print computed one.
C10_FreeReleasesAll ==
    \A t \in TensorIds :
       tensors[t].state = "freed" =>
          /\ tensors[t].shape_frees = 1
          /\ tensors[t].strides_frees = 1
          /\ tensors[t].self_frees = 1
          /\ tensors[t].repr # "NULL" => tensors[t].repr_frees = 1

\* a call of tensor_to_string or tensor_print on a Tensor whose string
\* representation was computed before: the text is the one computed then, and
\* the block tensor_to_string returns is allocated
C11_MemoStep ==
    \A t \in TensorIds :
       (/\ last'.op \in {"to_string", "print"}
        /\ last'.t = t
        /\ tensors[t].repr # "NULL")
       => /\ tensors'[t].repr_text = tensors[t].repr_text
          /\ tensors[t].repr = "valid"

\* C11: in any sequence of tensor_to_string, tensor_print and tensor_setitem
\* calls on a live tensor, once the string representation has been computed
\* every later tensor_to_string/tensor_print reuses that memoized string (not
\* recomputed even after elements were set), and the string returned is still
\* an allocated, valid buffer.
C11_MemoizedStringStaysValid == [][C11_MemoStep]_vars

\* a constructor call that returned: the Tensor it returns is new, on a
\* Storage that was not allocated before the call and that no other Tensor
\* points to, of product(shape) elements, counted once, at offset 0
C12_FreshStep ==
    (last'.op \in Constructors /\ last'.new # 0) =>
       LET t == last'.new
           sid == tensors'[t].storage
       IN  /\ tensors[t].state = "unused"
           /\ tensors'[t].state = "live"
           /\ tensors'[t].shape = last'.arg
           /\ sid \in StorageIds
           /\ storages[sid].state = "unused"
           /\ storages'[sid].state = "allocated"
           /\ \A u \in TensorIds \ {t} :
                 tensors'[u].state # "unused" => tensors'[u].storage # sid
           /\ storages'[sid].data_size = Product(last'.arg)
           /\ DOMAIN storages'[sid].data = 0..(Product(last'.arg) - 1)
           /\ storages'[sid].ref_count = 1
           /\ tensors'[t].offset = 0

\* C12: for every shape of positive integers, a tensor freshly built by
\* tensor_empty/tensor_arange/tensor_ones/tensor_zeros is backed by a newly
\* allocated Storage (shared with no other tensor) whose data_size equals
\* product(shape), with ref_count 1 and offset 0.
C12_FreshStorage == [][C12_FreshStep]_vars

\* a second tensor, of shape [1,3], just built on a Storage of its own while
\* the first tensor is live
C12_Witness ==
    /\ last.op \in Constructors
    /\ last.new = 2
    /\ tensors[2].shape = <<1, 3>>
    /\ tensors[1].state = "live"
    /\ tensors[2].storage # tensors[1].storage
    /\ storages[tensors[2].storage].data_size = 3
    /\ storages[tensors[2].storage].ref_count = 1

\* C13: for t = tensor_arange(start, step, shape) with integer-valued start
\* and step, the element tensor_getitem reads at any valid logical index idx
\* equals start + k*step, k the row-major flat position of idx
\* (arange(0,1,[3,4]) at [1,2] is 6). The element being a float, start + k*step
\* is taken as the float nearest to it.
C13_ArangeValues ==
    (last.op = "arange" /\ last.new # 0) =>
       LET t == last.new
           shape == tensors[t].shape
       IN  \A idx \in ValidIndexArrays(shape) :
              GetNow(t, idx)
                 = RoundToFloat(last.start
                                + RowMajorFlat(shape, NonNegative(shape, idx)) * last.step)

\* a call of tensor_getitem that returned: what it read is the element every
\* Tensor on the same Storage has at the same row-major flat position
C14_FlatOrderStep ==
    (last'.op = "getitem" /\ status' = "running") =>
       LET r == last'.t
           k == RowMajorFlat(tensors[r].shape, last'.indices)
       IN  \A u \in Sharing(tensors[r].storage) :
              \A idx \in NonNegIndexArrays(tensors[u].shape) :
                 RowMajorFlat(tensors[u].shape, idx) = k
                    => GetNow(u, idx) = last'.result

\* C14: reshape preserves flat order: for a tensor t built by a constructor
\* and r reached from it by one tensor_reshape or a chain of them, the element
\* tensor_getitem reads from r at a valid index is the element of t at the
\* same row-major flat position.
C14_ReshapePreservesFlatOrder == [][C14_FlatOrderStep]_vars

\* [2,2] reshaped to [4]: the read of r[2] returned the 1 that t has at [1,0],
\* its neighbours in the buffer being 0
C14_Witness ==
    /\ last.op = "getitem"
    /\ status = "running"
    /\ last.t = 2
    /\ tensors[1].state = "live"
    /\ tensors[2].storage = tensors[1].storage
    /\ tensors[1].shape = <<2, 2>>
    /\ tensors[2].shape = <<4>>
    /\ last.indices = <<2>>
    /\ last.result = 1
    /\ GetNow(1, <<1, 0>>) = 1
    /\ GetNow(1, <<0, 1>>) = 0
    /\ GetNow(1, <<1, 1>>) = 0

\* a call of tensor_getitem or tensor_setitem never ends in the failed
\* assertion of storage_getitem/storage_setitem, and with an index array of
\* the right count and in-range entries it reaches the Storage at position
\* offset + sum(indices[i] * strides[i]), inside [0, data_size); the
\* positions a constructor's fill loop visits are inside it too
C15_AssertHoldsStep ==
    /\ AccessCall =>
          LET t == last'.t
              sto == storages[tensors[t].storage]
          IN  /\ status' # "abort"
              /\ last'.arg \in ValidIndexArrays(tensors[t].shape) =>
                    /\ status' = "running"
                    /\ last'.phys = PhysOf(t, last'.arg)
                    /\ last'.phys >= 0
                    /\ last'.phys < sto.data_size
                    /\ last'.phys \in DOMAIN sto.data
    /\ (last'.op \in Constructors /\ last'.new # 0) =>
          LET sto == storages'[tensors'[last'.new].storage]
          IN  \A i \in DOMAIN sto.data : storage_index_ok(sto, i)

\* C15: for every tensor reached by a constructor followed by any chain of
\* successful tensor_reshape calls, and every index tuple that passes the
\* count and per-axis validation, the physical position
\* offset + sum(indices[i]*strides[i]) lies in [0, data_size): the assertion
\* of storage_getitem/storage_setitem never fails on a call made through
\* tensor_getitem/tensor_setitem or a constructor's fill loop.
C15_AssertNeverFails == [] (status # "abort") /\ [][C15_AssertHoldsStep]_vars

\* a write through the second reshape of a [4] tensor, of shape [2,2], at
\* [-1,-1]: it reached the last position of the buffer
C15_Witness ==
    /\ last.op = "setitem"
    /\ status = "running"
    /\ last.t = 3
    /\ tensors[3].shape = <<2, 2>>
    /\ tensors[2].shape = <<1, 4>>
    /\ tensors[3].storage = 1
    /\ tensors[2].storage = 1
    /\ storages[1].data_size = 4
    /\ last.arg = <<0 - 1, 0 - 1>>
    /\ last.phys = 3

\* a call of tensor_reshape that returned a Tensor, and a call of tensor_free
C16_FrameStep ==
    /\ (last'.op = "reshape" /\ last'.new # 0) =>
          LET t == last'.t
              new == last'.new
              sid == tensors[t].storage
          IN  /\ \A u \in TensorIds \ {new} : tensors'[u] = tensors[u]
              /\ storages'[sid] = [storages[sid] EXCEPT !.ref_count = @ + 1]
              /\ storages'[sid].data = storages[sid].data
              /\ \A s \in StorageIds \ {sid} : storages'[s] = storages[s]
              /\ tensors[new].state = "unused"
              /\ tensors'[new].state = "live"
              /\ tensors'[new].storage = tensors[t].storage
              /\ tensors'[new].offset = tensors[t].offset
              /\ tensors'[new].shape = last'.arg
              /\ tensors'[new].ndim = Len(last'.arg)
              /\ tensors'[new].shape_frees = 0
              /\ tensors'[new].strides_frees = 0
    /\ last'.op = "free" =>
          \A u \in TensorIds \ {last'.t} : tensors'[u] = tensors[u]

\* C16: a successful tensor_reshape(t, new_shape) changes nothing but the
\* shared Storage's ref_count (+1): t's shape, strides, offset, ndim and cached
\* repr and every Storage element are unchanged, the new tensor has the
\* storage and the offset of t, and its shape and strides arrays are its own,
\* so a later tensor_free(t) leaves them intact.
C16_ReshapeFrame == [][C16_FrameStep]_vars

\* tensor 1, of shape [4] and with a computed repr, was reshaped to [2,2] and
\* has just been freed: the view's shape and strides are intact and unfreed
C16_Witness ==
    /\ last.op = "free"
    /\ last.t = 1
    /\ tensors[1].repr # "NULL"
    /\ tensors[1].shape_frees = 1
    /\ tensors[2].state = "live"
    /\ tensors[2].storage = tensors[1].storage
    /\ tensors[2].shape = <<2, 2>>
    /\ tensors[2].strides = <<2, 1>>
    /\ tensors[2].shape_frees = 0
    /\ tensors[2].strides_frees = 0
    /\ storages[tensors[2].storage].ref_count = 1
    /\ storages[tensors[2].storage].state = "allocated"

\* C17: the demonstration entry point frees what it builds: when main returns
\* 0, every Tensor it constructed (the arange tensor and the reshaped view)
\* has been freed exactly once and the shared Storage's ref_count has reached
\* 0 with its buffer released.
C17_MainFreesWhatItBuilds ==
    status = "exit_success" =>
       /\ \A t \in {MainT, MainReshaped} :
             /\ tensors[t].state = "freed"
             /\ tensors[t].self_frees = 1
       /\ \A s \in StorageIds :
             storages[s].state # "unused" =>
                /\ storages[s].ref_count = 0
                /\ storages[s].state = "freed"
                /\ storages[s].data_frees = 1

\* C18: for every tensor produced by a constructor or by tensor_reshape,
\* logical_to_physical is a bijection from the valid non-negative index
\* tuples (each entry in [0, shape[a])) onto the physical positions
\* 0..data_size-1: no two tuples map to the same position and every position
\* is addressed by some tuple.
C18_IndexBijection ==
    \A t \in Live :
       LET tr == tensors[t]
           tuples == NonNegIndexArrays(tr.shape)
           positions == 0..(storages[tr.storage].data_size - 1)
       IN  /\ \A idx \in tuples : logical_to_physical(tr, idx) \in positions
           /\ \A p \in positions :
                 Cardinality({idx \in tuples : logical_to_physical(tr, idx) = p}) = 1

\* a [4,1] tensor and its [2,2] reshape, live on one Storage of 4 elements:
\* [3,0] of the one and [1,1] of the other are the tuples of position 3
C18_Witness ==
    /\ tensors[1].state = "live"
    /\ tensors[2].state = "live"
    /\ tensors[1].shape = <<4, 1>>
    /\ tensors[2].shape = <<2, 2>>
    /\ tensors[2].storage = tensors[1].storage
    /\ storages[tensors[1].storage].data_size = 4
    /\ logical_to_physical(tensors[1], <<3, 0>>) = 3
    /\ logical_to_physical(tensors[2], <<1, 1>>) = 3
    /\ logical_to_physical(tensors[2], <<1, 0>>) = 2

\* a call of tensor_getitem or tensor_setitem: what it leaves alone, and what
\* it does to the caller's index array when it returns
C19_AccessFrameStep ==
    AccessCall =>
       LET t == last'.t
           tr == tensors[t]
           sid == tr.storage
       IN  /\ tensors' = tensors
           /\ \A s \in StorageIds :
                 /\ storages'[s].ref_count = storages[s].ref_count
                 /\ storages'[s].data_size = storages[s].data_size
                 /\ storages'[s].state = storages[s].state
                 /\ (s # sid \/ last'.op = "getitem" \/ status' # "running")
                       => storages'[s] = storages[s]
           /\ (last'.op = "setitem" /\ status' = "running") =>
                 \A p \in DOMAIN storages[sid].data :
                    p # last'.phys => storages'[sid].data[p] = storages[sid].data[p]
           /\ status' = "running" =>
                 /\ Len(last'.indices) = Len(last'.arg)
                 /\ \A a \in 1..tr.ndim :
                       /\ last'.indices[a] = IF last'.arg[a] < 0
                                             THEN last'.arg[a] + tr.shape[a]
                                             ELSE last'.arg[a]
                       /\ last'.indices[a] >= 0
                       /\ last'.indices[a] < tr.shape[a]
                 /\ LET again == tensor_getitem(tensors'[t], storages'[sid], last'.indices)
                    IN  /\ again.status = "running"
                        /\ again.phys = last'.phys
                        /\ again.indices = last'.indices

\* C19: tensor_getitem and tensor_setitem change no Tensor metadata (shape,
\* strides, offset, ndim, storage pointer, ref_count), and tensor_getitem
\* changes no Storage element; besides the one element set writes, their only
\* side effect is that negative entries of the caller's index array are
\* rewritten in place to entry + shape[a], so that after a successful call
\* every entry is in [0, shape[a]) and a repeated call with the same array
\* addresses the same element.
C19_AccessFrame == [][C19_AccessFrameStep]_vars

\* get(t, [-1, 0]) on a [2,2] tensor returned: the caller's array is now [1, 0]
C19_Witness ==
    /\ last.op = "getitem"
    /\ status = "running"
    /\ tensors[last.t].shape = <<2, 2>>
    /\ last.arg = <<0 - 1, 0>>
    /\ last.indices = <<1, 0>>
    /\ last.phys = 2

====
